---------------------------- MODULE Spec2Model ----------------------------
(***************************************************************************)
(* Model of the Aura scoring engine, src/lib/aura.ts.                      *)
(*                                                                         *)
(* computeAura is a pure function of an AuraInputs record.  Every number   *)
(* in the TypeScript source is an IEEE-754 binary64 value, and the result  *)
(* depends on its rounding (an affinity tie in the reals need not be a tie *)
(* of the computed doubles), so the arithmetic is modelled bit-exactly:    *)
(* a double is a sign and a magnitude, the magnitude a fixed-point number  *)
(* with FracBits fractional bits held as little-endian limbs of LimbBits   *)
(* bits, rounded to 53 significant bits (ties to even) after each          *)
(* operation.  The inputs are integers and multiples of 1/8, so NaN, the   *)
(* infinities and -0 do not arise.  Math.log10 alone is not bit-exact: see *)
(* Log10Ratio100.                                                          *)
(***************************************************************************)
EXTENDS Integers, Sequences, FiniteSets, TLC

-----------------------------------------------------------------------------
(* Number: IEEE-754 binary64 arithmetic on limb sequences.                  *)

LimbBits == 12
Base == 2 ^ LimbBits
FracLimbs == 5
FracBits == FracLimbs * LimbBits
Width == FracLimbs + 3
Mantissa == 53

Pow2(n) == 2 ^ n

RECURSIVE Carry(_, _)
Carry(s, c) ==
    IF s = <<>> THEN <<>>
    ELSE LET t == Head(s) + c
         IN  <<t % Base>> \o Carry(Tail(s), t \div Base)

ZeroMag == [i \in 1..Width |-> 0]

\* the magnitude of the non-negative integer n (n < 2^31)
IntMag(n) ==
    [i \in 1..Width |->
        IF i = FracLimbs + 1 THEN n % Base
        ELSE IF i = FracLimbs + 2 THEN (n \div Base) % Base
        ELSE IF i = FracLimbs + 3 THEN n \div (Base * Base)
        ELSE 0]

\* the magnitude of n / 2^k for 0 <= n < Base and k <= LimbBits
FracMag(n, k) ==
    [i \in 1..Width |->
        IF i = FracLimbs + 1 THEN n \div Pow2(k)
        ELSE IF i = FracLimbs THEN (n % Pow2(k)) * Pow2(LimbBits - k)
        ELSE 0]

RECURSIVE TopLimb(_, _)
TopLimb(m, i) == IF i = 0 \/ m[i] # 0 THEN i ELSE TopLimb(m, i - 1)

RECURSIVE BitLenSmall(_)
BitLenSmall(n) == IF n = 0 THEN 0 ELSE 1 + BitLenSmall(n \div 2)

BitLen(m) ==
    LET t == TopLimb(m, Len(m))
    IN  IF t = 0 THEN 0 ELSE LimbBits * (t - 1) + BitLenSmall(m[t])

BitAt(m, i) == (m[(i \div LimbBits) + 1] \div Pow2(i % LimbBits)) % 2

\* some bit of m below position i is set
StickyBelow(m, i) ==
    \/ \E j \in 1..(i \div LimbBits) : m[j] # 0
    \/ m[(i \div LimbBits) + 1] % Pow2(i % LimbBits) # 0

\* round the magnitude to Mantissa significant bits, ties to even
RoundMag(m) ==
    LET s == BitLen(m) - Mantissa
    IN  IF s <= 0 THEN m
        ELSE LET a  == s \div LimbBits
                 b  == s % LimbBits
                 up == /\ BitAt(m, s - 1) = 1
                       /\ (StickyBelow(m, s - 1) \/ BitAt(m, s) = 1)
             IN  Carry([i \in 1..Len(m) |->
                          IF i <= a THEN 0
                          ELSE IF i = a + 1
                               THEN m[i] - (m[i] % Pow2(b))
                                    + (IF up THEN Pow2(b) ELSE 0)
                               ELSE m[i]], 0)

RECURSIVE CmpFrom(_, _, _)
CmpFrom(a, b, i) ==
    IF i = 0 THEN 0
    ELSE IF a[i] < b[i] THEN -1
    ELSE IF a[i] > b[i] THEN 1
    ELSE CmpFrom(a, b, i - 1)

CmpMag(a, b) == CmpFrom(a, b, Width)

AddMag(a, b) == RoundMag(Carry([i \in 1..Width |-> a[i] + b[i]], 0))

\* a - b for a >= b (exact, then rounded)
SubMag(a, b) == RoundMag(Carry([i \in 1..Width |-> a[i] - b[i]], 0))

RECURSIVE LowLimb(_, _)
LowLimb(m, i) == IF i > Len(m) \/ m[i] # 0 THEN i ELSE LowLimb(m, i + 1)

Span(m) == TopLimb(m, Width) - LowLimb(m, 1)

Max(i, j) == IF i < j THEN j ELSE i
Min(i, j) == IF i < j THEN i ELSE j

\* limb k of the product: the sum of a[i] * b[k+1-i] over the limbs lo..hi
\* of a
RECURSIVE Conv(_, _, _, _, _)
Conv(a, b, k, i, hi) ==
    IF i > hi THEN 0 ELSE a[i] * b[k + 1 - i] + Conv(a, b, k, i + 1, hi)

\* the exact product has 2*FracBits fractional bits; it is rounded and the
\* (then zero) low FracLimbs limbs are dropped.  Only the non-zero limbs of
\* a are visited.
MulLimbs(a, b) ==
    LET lo == LowLimb(a, 1)
        hi == TopLimb(a, Width)
        p == RoundMag(Carry([k \in 1..(2 * Width) |->
                 Conv(a, b, k, Max(lo, k + 1 - Width), Min(hi, k))], 0))
    IN  [i \in 1..Width |-> p[i + FracLimbs]]

MulMag(a, b) == IF Span(a) <= Span(b) THEN MulLimbs(a, b) ELSE MulLimbs(b, a)

Num(neg, mag) == [neg |-> neg /\ mag # ZeroMag, mag |-> mag]

FromInt(n) == IF n < 0 THEN Num(TRUE, IntMag(-n)) ELSE Num(FALSE, IntMag(n))

Zero == FromInt(0)
One == FromInt(1)

Add(x, y) ==
    IF x.neg = y.neg THEN Num(x.neg, AddMag(x.mag, y.mag))
    ELSE IF CmpMag(x.mag, y.mag) >= 0 THEN Num(x.neg, SubMag(x.mag, y.mag))
    ELSE Num(y.neg, SubMag(y.mag, x.mag))

Neg(x) == Num(~x.neg, x.mag)

Sub(x, y) == Add(x, Neg(y))

Mul(x, y) == Num(x.neg # y.neg, MulMag(x.mag, y.mag))

\* -1, 0, 1 as x < y, x = y, x > y
Cmp(x, y) ==
    IF x.neg # y.neg THEN (IF x.neg THEN -1 ELSE 1)
    ELSE IF x.neg THEN CmpMag(y.mag, x.mag)
    ELSE CmpMag(x.mag, y.mag)

Lt(x, y) == Cmp(x, y) < 0
Le(x, y) == Cmp(x, y) <= 0
Gt(x, y) == Cmp(x, y) > 0

MathMax(x, y) == IF Lt(x, y) THEN y ELSE x
MathMin(x, y) == IF Lt(y, x) THEN y ELSE x

\* Math.round of a non-negative double below 2^31: the nearest integer,
\* halves upwards
MathRound(x) ==
    LET m == x.mag
    IN  m[FracLimbs + 1] + Base * m[FracLimbs + 2] + Base * Base * m[FracLimbs + 3]
        + (IF m[FracLimbs] >= Base \div 2 THEN 1 ELSE 0)

\* the fractional limbs of r/d (r < d), most significant last
RECURSIVE DivLimbs(_, _, _)
DivLimbs(r, d, k) ==
    IF k = 0 THEN <<>>
    ELSE DivLimbs((r * Base) % d, d, k - 1) \o <<(r * Base) \div d>>

RECURSIVE DivRem(_, _, _)
DivRem(r, d, k) == IF k = 0 THEN r ELSE DivRem((r * Base) % d, d, k - 1)

\* the double nearest to n/d, which is what the decimal literal reads as
\* (0 <= n, 0 < d < 2^19, n/d >= 2^-5): the quotient is truncated to
\* FracBits bits, an inexact quotient sets the lowest bit as a sticky bit
Literal(n, d) ==
    LET f == DivLimbs(n % d, d, FracLimbs)
        q == IntMag(n \div d)
        m == [i \in 1..Width |->
                IF i = 1 THEN f[1] + (IF DivRem(n % d, d, FracLimbs) # 0 /\ f[1] % 2 = 0
                                      THEN 1 ELSE 0)
                ELSE IF i <= FracLimbs THEN f[i]
                ELSE q[i]]
    IN  Num(FALSE, RoundMag(m))

\* x / 2^k for an integer x and k <= LimbBits
FromFrac(x, k) ==
    IF x < 0 THEN Num(TRUE, FracMag(-x, k)) ELSE Num(FALSE, FracMag(x, k))

-----------------------------------------------------------------------------
(* Math.log10.  Only the quotient of two logarithms is used, so the base    *)
(* cancels: the binary logarithm is computed by repeated squaring of the    *)
(* mantissa, to LogBits fractional bits.  The quotient times 100 is then    *)
(* known to within 10^-5, while for every raw value on the input grid       *)
(* below its cap the exact r*100 is at least 2*10^-4 away from the nearest  *)
(* n + 1/2, so the rounded score is the one the double computation gives.   *)

LogBits == 23
SqBits == 28

\* the cnt bits of m from bit lo upwards, as an integer
RECURSIVE Extract(_, _, _)
Extract(m, lo, cnt) ==
    IF cnt = 0 THEN 0 ELSE BitAt(m, lo) + 2 * Extract(m, lo + 1, cnt - 1)

\* x*x for x in [1,2) with SqBits fractional bits, rounded down
Sq(x) ==
    LET h  == Pow2(SqBits \div 2)
        hi == x \div h
        lo == x % h
    IN  hi * hi + (2 * hi * lo + (lo * lo) \div h) \div h

RECURSIVE LogFrac(_, _)
LogFrac(x, k) ==
    IF k = 0 THEN 0
    ELSE LET y == Sq(x)
         IN  IF y >= Pow2(SqBits + 1)
             THEN Pow2(k - 1) + LogFrac(y \div 2, k - 1)
             ELSE LogFrac(y, k - 1)

\* floor(2^LogBits * log2(x)) for a double x >= 1
Log2(x) ==
    LET n == BitLen(x.mag)
    IN  (n - 1 - FracBits) * Pow2(LogBits)
        + LogFrac(Extract(x.mag, n - SqBits - 1, SqBits + 1), LogBits)

\* the first k decimal digits of r/d (0 <= r < d), as an integer
RECURSIVE DecDiv(_, _, _)
DecDiv(r, d, k) ==
    IF k = 0 THEN 0
    ELSE ((r * 10) \div d) * (10 ^ (k - 1)) + DecDiv((r * 10) % d, d, k - 1)

\* Math.log10(x) / Math.log10(y) * 100 for doubles x >= 1, y > 1: the
\* quotient in thousandths, rounded down, read as a double
Log10Ratio100(x, y) ==
    LET num == Log2(x)
        den == Log2(y)
    IN  Literal((num \div den) * 100000 + DecDiv(num % den, den, 5), 1000)

-----------------------------------------------------------------------------
(* src/lib/aura.ts                                                          *)

\* the decimal literals of the source, as doubles
D0_05 == Literal(5, 100)
D0_1 == Literal(1, 10)
D0_10 == Literal(10, 100)
D0_15 == Literal(15, 100)
D0_2 == Literal(2, 10)
D0_20 == Literal(20, 100)
D0_30 == Literal(30, 100)
D0_35 == Literal(35, 100)
D0_45 == Literal(45, 100)
D0_55 == Literal(55, 100)
D0_6 == Literal(6, 10)
D0_65 == Literal(65, 100)
D0_7 == Literal(7, 10)
D0_75 == Literal(75, 100)
D1_2 == Literal(12, 10)
D2 == FromInt(2)
D10 == FromInt(10)
D45 == FromInt(45)
D55 == FromInt(55)
D60 == FromInt(60)
D100 == FromInt(100)

\* An optional field is <<>> when absent (undefined) and <<v>> when present
Undefined == <<>>
Some(v) == <<v>>
Coalesce(x, d) == IF x = Undefined THEN d ELSE x[1]

\* A ratio input k stands for the double k/8 (every such value is exact)
RatioBits == 3
Ratio(k) == FromFrac(k, RatioBits)

clamp(n, min, max) == MathMin(max, MathMax(min, n))
\* mutant of clamp01: the ratio is used as passed
clamp01Unclamped(n) == n

clamp01(n) == clamp(n, Zero, One)

\* mutant of logScore: the clamp to [0,100] is dropped
logScoreUnclamped(value, cap) ==
    LET v == MathMax(Zero, value)
        c == MathMax(One, cap)
    IN  MathRound(Log10Ratio100(Add(One, v), Add(One, c)))

logScore(value, cap) ==
    LET v == MathMax(Zero, value)
        c == MathMax(One, cap)
        r100 == Log10Ratio100(Add(One, v), Add(One, c))
    IN  MathRound(clamp(r100, Zero, D100))

AuraTypes == {"BUILDER", "CREATOR", "INFLUENCER", "THINKER", "DEGEN", "LURKER"}

\* the five affinities, in the order of the entries array
Affinities(inputs, breakdown) ==
    LET casts == MathMax(Zero, FromInt(inputs.casts))
        replies == MathMax(Zero, FromInt(inputs.replies))
        longRatio == clamp01(Ratio(Coalesce(inputs.longCastRatio, 0)))
        activity == FromInt(breakdown.activity)
        impact == FromInt(breakdown.impact)
        social == FromInt(breakdown.social)
        style == FromInt(breakdown.style)
        onchain == FromInt(breakdown.onchain)
        builder == Add(Add(Mul(activity, D0_6), Mul(impact, D0_2)),
                       IF Gt(replies, casts) THEN D10 ELSE Zero)
        creator == Add(Add(Mul(style, D0_75), Mul(impact, D0_15)),
                       Mul(activity, D0_1))
        influencer == Add(Add(Mul(social, D0_45), Mul(impact, D0_45)),
                          Mul(activity, D0_1))
        thinker == Add(Add(Mul(style, D0_55), Mul(activity, D0_35)),
                       IF Gt(longRatio, D0_35) THEN D10 ELSE Zero)
        degen == Add(Add(Mul(onchain, D0_65), Mul(activity, D0_2)),
                     Mul(impact, D0_15))
    IN  << <<"BUILDER", builder>>, <<"CREATOR", creator>>,
           <<"INFLUENCER", influencer>>, <<"THINKER", thinker>>,
           <<"DEGEN", degen>> >>

\* mutant of isLurker: both clauses are required
isLurkerBothClauses(inputs, breakdown) ==
    LET casts == MathMax(Zero, FromInt(inputs.casts))
        replies == MathMax(Zero, FromInt(inputs.replies))
        totalActivity == Add(casts, replies)
    IN  /\ Le(totalActivity, D2)
        /\ (breakdown.activity <= 12 /\ breakdown.impact <= 12 /\ breakdown.social <= 12)

\* mutant of isLurker: the footprint threshold is off by one
isLurkerUpToThree(inputs, breakdown) ==
    LET casts == MathMax(Zero, FromInt(inputs.casts))
        replies == MathMax(Zero, FromInt(inputs.replies))
        totalActivity == Add(casts, replies)
    IN  \/ Le(totalActivity, FromInt(3))
        \/ (breakdown.activity <= 12 /\ breakdown.impact <= 12 /\ breakdown.social <= 12)

isLurker(inputs, breakdown) ==
    LET casts == MathMax(Zero, FromInt(inputs.casts))
        replies == MathMax(Zero, FromInt(inputs.replies))
        totalActivity == Add(casts, replies)
    IN  \/ Le(totalActivity, D2)
        \/ (breakdown.activity <= 12 /\ breakdown.impact <= 12 /\ breakdown.social <= 12)

\* mutant of compareFn: ascending order
compareFnAscending(a, b) == Sub(a[2], b[2])

\* the comparator of entries.sort: b[1] - a[1]
compareFn(a, b) == Sub(b[2], a[2])

\* Array.prototype.sort is stable: an element goes after every element the
\* comparator does not put it before
RECURSIVE Insert(_, _)
Insert(sorted, e) ==
    IF sorted = <<>> THEN <<e>>
    ELSE IF Gt(compareFn(Head(sorted), e), Zero)
         THEN <<e>> \o sorted
         ELSE <<Head(sorted)>> \o Insert(Tail(sorted), e)

RECURSIVE SortFrom(_, _, _)
SortFrom(entries, i, sorted) ==
    IF i > Len(entries) THEN sorted
    ELSE SortFrom(entries, i + 1, Insert(sorted, entries[i]))

\* mutant of sort: an element goes before the elements it is equal to, so
\* the last of several equal elements comes first
RECURSIVE InsertBeforeEqual(_, _)
InsertBeforeEqual(sorted, e) ==
    IF sorted = <<>> THEN <<e>>
    ELSE IF Cmp(compareFn(Head(sorted), e), Zero) >= 0
         THEN <<e>> \o sorted
         ELSE <<Head(sorted)>> \o InsertBeforeEqual(Tail(sorted), e)

RECURSIVE SortFromBeforeEqual(_, _, _)
SortFromBeforeEqual(entries, i, sorted) ==
    IF i > Len(entries) THEN sorted
    ELSE SortFromBeforeEqual(entries, i + 1, InsertBeforeEqual(sorted, entries[i]))

sortUnstable(entries) == SortFromBeforeEqual(entries, 1, <<>>)

sort(entries) == SortFrom(entries, 1, <<>>)

pickAuraType(inputs, breakdown) ==
    IF isLurker(inputs, breakdown) THEN "LURKER"
    ELSE sort(Affinities(inputs, breakdown))[1][1]

meta(type) ==
    CASE type = "BUILDER" ->
           [emoji |-> "hammer and wrench", label |-> "Builder Aura",
            description |-> "You ship more than you talk. Keep building."]
      [] type = "CREATOR" ->
           [emoji |-> "artist palette", label |-> "Creator Aura",
            description |-> "Taste + output. You make the timeline prettier."]
      [] type = "INFLUENCER" ->
           [emoji |-> "megaphone", label |-> "Influencer Aura",
            description |-> "You move attention. The feed follows your signal."]
      [] type = "THINKER" ->
           [emoji |-> "brain", label |-> "Thinker Aura",
            description |-> "Depth merchant. Your replies add real brainpower."]
      [] type = "DEGEN" ->
           [emoji |-> "slot machine", label |-> "Degen Aura",
            description |-> "Onchain instincts. You're early, often, and unbothered."]
      [] type = "LURKER" ->
           [emoji |-> "eyes", label |-> "Lurker Aura",
            description |-> "Silent watcher. Your aura is mysterious (and powerful)."]

ActivityCap == 120
ImpactCap == 250
SocialCap == 2000
OnchainCap == 40

\* the five dimensions of the breakdown, lines 118-132 of computeAura
\* mutant of activityOf: the weighted replies are subtracted
activityOfRepliesSubtracted(inputs) ==
    LET activityRaw == Sub(FromInt(inputs.casts), Mul(FromInt(inputs.replies), D1_2))
    IN  logScore(activityRaw, FromInt(ActivityCap))

activityOf(inputs) ==
    LET activityRaw == Add(FromInt(inputs.casts), Mul(FromInt(inputs.replies), D1_2))
    IN  logScore(activityRaw, FromInt(ActivityCap))

impactOf(inputs) ==
    LET impactRaw == FromInt(inputs.reactionsReceived)
    IN  logScore(impactRaw, FromInt(ImpactCap))

socialOf(inputs) ==
    LET socialRaw == FromInt(inputs.followers)
    IN  logScore(socialRaw, FromInt(SocialCap))

styleOf(inputs) ==
    LET longRatio == clamp01(Ratio(Coalesce(inputs.longCastRatio, 0)))
        mediaRatio == clamp01(Ratio(Coalesce(inputs.mediaCastRatio, 0)))
    IN  MathRound(clamp(Add(Mul(longRatio, D55), Mul(mediaRatio, D45)), Zero, D100))

onchainOf(inputs) ==
    LET baseTx == MathMax(Zero, FromInt(Coalesce(inputs.baseTxCount, 0)))
    IN  logScore(baseTx, FromInt(OnchainCap))

Breakdown(inputs) ==
    [activity |-> activityOf(inputs), impact |-> impactOf(inputs),
     social |-> socialOf(inputs), style |-> styleOf(inputs),
     onchain |-> onchainOf(inputs)]

\* mutant of Score: the LURKER score is clamped to 100 like the others
ScoreLurkerUncapped(type, b) ==
    LET weighted ==
            Add(Add(Add(Add(Mul(FromInt(b.activity), D0_35),
                            Mul(FromInt(b.impact), D0_30)),
                        Mul(FromInt(b.social), D0_20)),
                    Mul(FromInt(b.style), D0_10)),
                Mul(FromInt(b.onchain), D0_05))
    IN  IF type = "LURKER"
        THEN MathRound(clamp(Add(Mul(weighted, D0_7), D10), Zero, D100))
        ELSE MathRound(clamp(weighted, Zero, D100))

\* the final score of computeAura, lines 141-150
Score(type, b) ==
    LET weighted ==
            Add(Add(Add(Add(Mul(FromInt(b.activity), D0_35),
                            Mul(FromInt(b.impact), D0_30)),
                        Mul(FromInt(b.social), D0_20)),
                    Mul(FromInt(b.style), D0_10)),
                Mul(FromInt(b.onchain), D0_05))
    IN  IF type = "LURKER"
        THEN MathRound(clamp(Add(Mul(weighted, D0_7), D10),
                             Zero, D60))
        ELSE MathRound(clamp(weighted, Zero, D100))

computeAura(inputs) ==
    LET breakdown == Breakdown(inputs)
        type == pickAuraType(inputs, breakdown)
        m == meta(type)
    IN  [type |-> type, score |-> Score(type, breakdown), emoji |-> m.emoji,
         label |-> m.label, description |-> m.description,
         breakdown |-> breakdown]

-----------------------------------------------------------------------------
(* The inputs a caller may pass, and one call of computeAura.               *)

MaxSmall == 3

Undef == {Undefined}

\* every combination of the four counts, the optional fields absent
Casts == (-MaxSmall..MaxSmall) \cup {10, 120, 200}
Replies == -1..MaxSmall
Reactions == {-1, 0, 1, 5, 250, 1000}
Followers == {0, 20, 100, 2000, 1000000}

CountInputs ==
    [casts : Casts, replies : Replies, reactionsReceived : Reactions,
     followers : Followers, longCastRatio : Undef, mediaCastRatio : Undef,
     baseTxCount : Undef]

\* every combination of the optional fields, for a few profiles of counts
LongRatios == Undef \cup {Some(k) : k \in {-1, 0, 2, 3, 8, 9}}
MediaRatios == Undef \cup {Some(k) : k \in {-1, 4, 8, 9}}
BaseTxCounts == Undef \cup {Some(k) : k \in {-1, 0, 40, 60}}
Profiles == {<<0, 0, 0, 0>>, <<0, 3, 5, 20>>, <<10, 2, 5, 20>>, <<10, 2, 1, 100>>,
             <<-1, 3, 1, 20>>, <<200, 3, 1000, 1000000>>, <<0, 2, 1000, 1000000>>}

OptionInputs ==
    {[casts |-> p[1], replies |-> p[2], reactionsReceived |-> p[3],
      followers |-> p[4], longCastRatio |-> l, mediaCastRatio |-> m,
      baseTxCount |-> b] :
        p \in Profiles, l \in LongRatios, m \in MediaRatios, b \in BaseTxCounts}

AuraInputs == CountInputs \cup OptionInputs

NoResult == [type |-> "none"]

VARIABLES inputs, result, pc

vars == <<inputs, result, pc>>

Init ==
    /\ inputs \in AuraInputs
    /\ result = NoResult
    /\ pc = "call"

Compute ==
    /\ pc = "call"
    /\ result' = computeAura(inputs)
    /\ pc' = "done"
    /\ UNCHANGED inputs

Next == Compute

Spec == Init /\ [][Next]_vars

-----------------------------------------------------------------------------
(* Vocabulary of the properties.  Counts are read as the engine reads them, *)
(* floored at 0; affinities are also given as the exact rational the        *)
(* formula denotes, in hundredths.                                          *)

Done == pc = "done"

Floor0(n) == IF n < 0 THEN 0 ELSE n

Dimensions == {"activity", "impact", "social", "style", "onchain"}

Order == <<"BUILDER", "CREATOR", "INFLUENCER", "THINKER", "DEGEN">>

\* casts + replies <= 2, or activity, impact and social all <= 12
Override(in, b) ==
    \/ Floor0(in.casts) + Floor0(in.replies) <= 2
    \/ (b.activity <= 12 /\ b.impact <= 12 /\ b.social <= 12)

\* the long-cast ratio in eighths, defaulted and clamped to [0,1]
LongEighths(in) == Min(Pow2(RatioBits), Max(0, Coalesce(in.longCastRatio, 0)))

\* the five affinities as exact rationals, in hundredths (longCastRatio > 0.35
\* is 100 * k > 35 * 8 for the ratio k/8)
ExactAffinity(in, b) ==
    << b.activity * 60 + b.impact * 20
          + (IF Floor0(in.replies) > Floor0(in.casts) THEN 1000 ELSE 0),
       b.style * 75 + b.impact * 15 + b.activity * 10,
       b.social * 45 + b.impact * 45 + b.activity * 10,
       b.style * 55 + b.activity * 35
          + (IF 100 * LongEighths(in) > 35 * Pow2(RatioBits) THEN 1000 ELSE 0),
       b.onchain * 65 + b.activity * 20 + b.impact * 15 >>

\* the position in Order of a type
Position(type) == CHOOSE i \in 1..Len(Order) : Order[i] = type

\* the first position whose exact affinity is the greatest
FirstExactMax(in, b) ==
    LET f == ExactAffinity(in, b)
    IN  CHOOSE i \in 1..Len(Order) :
            /\ \A j \in 1..Len(Order) : f[i] >= f[j]
            /\ \A j \in 1..(i - 1) : f[j] < f[i]

\* the first position whose computed (double) affinity is the greatest
FirstDoubleMax(in, b) ==
    LET e == Affinities(in, b)
    IN  CHOOSE i \in 1..Len(Order) :
            /\ \A j \in 1..Len(Order) : Cmp(e[i][2], e[j][2]) >= 0
            /\ \A j \in 1..(i - 1) : Cmp(e[j][2], e[i][2]) < 0

Input(c, r, re, f, l, m, b) ==
    [casts |-> c, replies |-> r, reactionsReceived |-> re, followers |-> f,
     longCastRatio |-> l, mediaCastRatio |-> m, baseTxCount |-> b]

-----------------------------------------------------------------------------
\* C1: for every input whose counts are non-negative integers and whose
\* ratios, when present, lie in [0,1], the score is an integer in [0,100],
\* each of the five breakdown dimensions is an integer in [0,100], and a
\* LURKER result has its score in [10,60].
ValidInput(in) ==
    /\ in.casts >= 0 /\ in.replies >= 0
    /\ in.reactionsReceived >= 0 /\ in.followers >= 0
    /\ Coalesce(in.baseTxCount, 0) >= 0
    /\ Coalesce(in.longCastRatio, 0) \in 0..Pow2(RatioBits)
    /\ Coalesce(in.mediaCastRatio, 0) \in 0..Pow2(RatioBits)

C1_ScoreAndBreakdownInRange ==
    (Done /\ ValidInput(inputs)) =>
        /\ result.score \in 0..100
        /\ \A d \in Dimensions : result.breakdown[d] \in 0..100
        /\ (result.type = "LURKER" => result.score \in 10..60)

\* a LURKER whose compressed score weighted*0.7 + 10 would pass 60, and is 60
C1_Witness ==
    /\ Done /\ ValidInput(inputs)
    /\ result.type = "LURKER" /\ result.score = 60
    /\ result.breakdown.impact = 100 /\ result.breakdown.style > 0

-----------------------------------------------------------------------------
\* C2: the LURKER override takes precedence: if casts + replies <= 2, or if
\* activity, impact and social are all <= 12, the type is LURKER whatever the
\* other inputs are; casts=1, replies=0, reactionsReceived=1000,
\* followers=1000000 yields LURKER, and the all-zero input yields LURKER with
\* every breakdown dimension 0.
C2_LurkerOverride ==
    Done =>
        /\ Override(inputs, result.breakdown) => result.type = "LURKER"
        /\ (inputs = Input(0, 0, 0, 0, Undefined, Undefined, Undefined) =>
               \A d \in Dimensions : result.breakdown[d] = 0)

\* the footprint rule alone decides: impact and social are saturated
C2_Witness ==
    /\ Done
    /\ inputs = Input(1, 0, 1000, 1000000, Undefined, Undefined, Undefined)
    /\ result.type = "LURKER"
    /\ result.breakdown.impact = 100 /\ result.breakdown.social = 100
    /\ result.breakdown.activity > 12

-----------------------------------------------------------------------------
\* C3: when the override does not hold, the type is one of BUILDER, CREATOR,
\* INFLUENCER, THINKER, DEGEN and its affinity is greater than or equal to
\* the affinity of each of the other four, both as the doubles the engine
\* computes and as the exact values of the formulas; casts=10, replies=2,
\* reactionsReceived=5, followers=20, baseTxCount=60 yields DEGEN.
C3_GreatestAffinity ==
    (Done /\ ~Override(inputs, result.breakdown)) =>
        /\ \E i \in 1..Len(Order) : result.type = Order[i]
        /\ LET i == Position(result.type)
               e == Affinities(inputs, result.breakdown)
               f == ExactAffinity(inputs, result.breakdown)
           IN  \A j \in 1..Len(Order) :
                   Cmp(e[i][2], e[j][2]) >= 0 /\ f[i] >= f[j]
        /\ (inputs = Input(10, 2, 5, 20, Undefined, Undefined, Some(60)) =>
               result.type = "DEGEN")

C3_Witness ==
    /\ Done
    /\ inputs = Input(10, 2, 5, 20, Undefined, Undefined, Some(60))
    /\ result.breakdown.onchain = 100
    /\ result.type = "DEGEN"

-----------------------------------------------------------------------------
\* C4 as stated: when the override does not hold and two or more archetypes
\* share the greatest affinity value (the value of the formula), the type is
\* the first of them in the order BUILDER, CREATOR, INFLUENCER, THINKER,
\* DEGEN.
C4_TieBreakExact ==
    (Done /\ ~Override(inputs, result.breakdown)) =>
        result.type = Order[FirstExactMax(inputs, result.breakdown)]

\* C4 as amended: when the override does not hold, the type is the first in
\* the order BUILDER, CREATOR, INFLUENCER, THINKER, DEGEN among the
\* archetypes whose affinities, as the doubles the engine computes, are equal
\* and greatest.
C4_TieBreakDouble ==
    (Done /\ ~Override(inputs, result.breakdown)) =>
        result.type = Order[FirstDoubleMax(inputs, result.breakdown)]

\* BUILDER and INFLUENCER are equal doubles and greatest; BUILDER is returned
C4_Witness ==
    /\ Done /\ ~Override(inputs, result.breakdown)
    /\ LET e == Affinities(inputs, result.breakdown)
       IN  /\ Cmp(e[1][2], e[3][2]) = 0
           /\ \A j \in 1..Len(Order) : Cmp(e[1][2], e[j][2]) >= 0
    /\ result.type = "BUILDER"

-----------------------------------------------------------------------------
\* C5: all count inputs are floored at 0 before use: replacing every negative
\* count (casts, replies, reactionsReceived, followers, baseTxCount) by 0
\* leaves the whole result of computeAura unchanged.
FlooredCounts(in) ==
    [in EXCEPT !.casts = Floor0(@), !.replies = Floor0(@),
               !.reactionsReceived = Floor0(@), !.followers = Floor0(@),
               !.baseTxCount = IF @ = Undefined THEN @ ELSE Some(Floor0(@[1]))]

C5_NegativeCountsFloored ==
    Done => result = computeAura(FlooredCounts(inputs))

-----------------------------------------------------------------------------
\* C6: optional inputs are defaulted and ratios are clamped before every use:
\* an absent longCastRatio, mediaCastRatio or baseTxCount gives the result of
\* the field set to 0, and a ratio below 0 or above 1 gives the result of the
\* ratio replaced by 0 or 1.
ClampedRatio(k) == Min(Pow2(RatioBits), Max(0, k))

DefaultedAndClamped(in) ==
    [in EXCEPT !.longCastRatio = Some(ClampedRatio(Coalesce(@, 0))),
               !.mediaCastRatio = Some(ClampedRatio(Coalesce(@, 0))),
               !.baseTxCount = Some(Coalesce(@, 0))]

C6_OptionalsDefaultedRatiosClamped ==
    Done => result = computeAura(DefaultedAndClamped(inputs))

\* a ratio above 1, a ratio below 0 and an absent count in one call: the
\* long ratio counts as 1 for the style (55) and for the thinker bonus
C6_Witness ==
    /\ Done
    /\ inputs.longCastRatio = Some(9) /\ inputs.mediaCastRatio = Some(-1)
    /\ inputs.baseTxCount = Undefined
    /\ result.breakdown.style = 55 /\ result.breakdown.onchain = 0
    /\ result.type = "THINKER"

-----------------------------------------------------------------------------
\* C7: normalization is monotonic: raising one raw metric (casts, replies,
\* reactionsReceived, followers or baseTxCount) and keeping the others never
\* lowers the corresponding dimension score.
C7_NormalizationMonotonic ==
    Done =>
        /\ \A c \in Casts : c >= inputs.casts =>
               activityOf([inputs EXCEPT !.casts = c]) >= result.breakdown.activity
        /\ \A r \in Replies : r >= inputs.replies =>
               activityOf([inputs EXCEPT !.replies = r]) >= result.breakdown.activity
        /\ \A re \in Reactions : re >= inputs.reactionsReceived =>
               impactOf([inputs EXCEPT !.reactionsReceived = re])
                   >= result.breakdown.impact
        /\ \A f \in Followers : f >= inputs.followers =>
               socialOf([inputs EXCEPT !.followers = f]) >= result.breakdown.social
        /\ \A b \in BaseTxCounts :
               (b # Undefined /\ b[1] >= Coalesce(inputs.baseTxCount, 0)) =>
               onchainOf([inputs EXCEPT !.baseTxCount = b]) >= result.breakdown.onchain

\* more replies, strictly more activity; more followers, the same (saturated)
\* social score
C7_Witness ==
    /\ Done
    /\ \E r \in Replies : r > inputs.replies
          /\ activityOf([inputs EXCEPT !.replies = r]) > result.breakdown.activity
    /\ \E f \in Followers : f > inputs.followers
          /\ socialOf([inputs EXCEPT !.followers = f]) = result.breakdown.social

-----------------------------------------------------------------------------
\* C8: normalization saturates: a raw value at or above its cap (activity:
\* casts + replies*1.2 >= 120, impact: reactionsReceived >= 250, social:
\* followers >= 2000, onchain: baseTxCount >= 40) yields exactly 100.
C8_NormalizationSaturates ==
    Done =>
        /\ 5 * inputs.casts + 6 * inputs.replies >= 5 * ActivityCap =>
               result.breakdown.activity = 100
        /\ inputs.reactionsReceived >= ImpactCap => result.breakdown.impact = 100
        /\ inputs.followers >= SocialCap => result.breakdown.social = 100
        /\ Coalesce(inputs.baseTxCount, 0) >= OnchainCap =>
               result.breakdown.onchain = 100

\* every dimension far above its cap at once
C8_Witness ==
    /\ Done
    /\ inputs.casts > ActivityCap /\ inputs.reactionsReceived > ImpactCap
    /\ inputs.followers > SocialCap /\ Coalesce(inputs.baseTxCount, 0) > OnchainCap
    /\ result.breakdown.activity = 100 /\ result.breakdown.impact = 100
    /\ result.breakdown.social = 100 /\ result.breakdown.onchain = 100

-----------------------------------------------------------------------------
\* C10: for non-negative integer casts and replies, casts + replies >= 3
\* implies activity > 12, so the result is LURKER if and only if
\* casts + replies <= 2, and every non-LURKER result has activity > 12.
C10_SecondClauseNeverDecides ==
    (Done /\ inputs.casts >= 0 /\ inputs.replies >= 0) =>
        /\ inputs.casts + inputs.replies >= 3 => result.breakdown.activity > 12
        /\ result.type = "LURKER" <=> inputs.casts + inputs.replies <= 2
        /\ result.type # "LURKER" => result.breakdown.activity > 12

\* three casts and nothing else: impact and social are within the second
\* clause, activity is not, and the result is not LURKER
C10_Witness ==
    /\ Done
    /\ inputs.casts + inputs.replies = 3 /\ inputs.casts >= 0 /\ inputs.replies >= 0
    /\ result.breakdown.impact <= 12 /\ result.breakdown.social <= 12
    /\ result.breakdown.activity > 12
    /\ result.type # "LURKER"

=============================================================================
